---------------------------- MODULE Spec2Model ----------------------------
(***************************************************************************)
(* Model of src/app.py (Lottery Genius): the ticket analyser               *)
(* analisar_jogo, the remote lookup carregar_ultimos_resultados, the       *)
(* weighted generator gerar_jogos and the two Flask routes index and       *)
(* download_txt.                                                           *)
(*                                                                         *)
(* Four specifications share the actions:                                  *)
(*   SpecGen    direct calls of gerar_jogos and analisar_jogo              *)
(*   SpecLookup one direct call of carregar_ultimos_resultados             *)
(*   SpecCache  direct calls of carregar_ultimos_resultados, one after     *)
(*              the other, while the clock advances                        *)
(*   SpecRoute  one HTTP request served by index or download_txt           *)
(*                                                                         *)
(* The code keeps no clock and stores no payload.  The variables agora,    *)
(* ultima_busca and fresco and the action PassarTempo follow the           *)
(* specification of the result cache (get_or_fetch, ttl): they record      *)
(* whether a lookup starts inside the freshness window, and take no part   *)
(* in what the lookup does.                                                *)
(***************************************************************************)
EXTENDS Integers, Sequences, FiniteSets, TLC

VARIABLES
    pc,               \* position of the running call / handler
    chamador,         \* who runs: "direto", "index", "download_txt"
    rng,              \* state of the process-wide random generator
    qtd_jogos,        \* gerar_jogos / handler: number of tickets
    dezenas_por_jogo, \* gerar_jogos / handler: ticket size
    frequencias,      \* frequency table (dict) or None
    sorteio_bruto,    \* gerar_jogos: raw sample of the last iteration
    vistos,           \* gerar_jogos: set filled by the scan of the last iteration
    extra,            \* gerar_jogos: random.sample result of the last iteration
    jogos,            \* gerar_jogos: list of {"dezenas", "analise"}
    jogo_arg,         \* analisar_jogo: the argument of a direct call
    estat,            \* analisar_jogo: the result of a direct call
    remoto,           \* the remote source: number of its latest contest
    resp_ultimo,      \* carregar: response to the latest-draw request
    numero_ultimo,    \* carregar: int(dados_ultimo["numero"])
    ultimo_resultado, \* carregar: the returned draw, or None
    concurso,         \* carregar: loop variable of the per-contest loop
    contador,         \* carregar: Counter() of the window
    pedidos,          \* requests.get calls of the running lookup, in order
    ocorrencias,      \* history: occurrences per number in the decoded draws
    agora,            \* wall clock
    ultima_busca,     \* clock value of the last successful latest-draw fetch
    consultas,        \* number of lookups started
    fresco,           \* the running lookup started inside the TTL window
    status,           \* HTTP status of the response, 0 while none
    erro              \* exception that escaped, "" while none

vars == <<pc, chamador, rng, qtd_jogos, dezenas_por_jogo, frequencias,
          sorteio_bruto, vistos, extra, jogos, jogo_arg, estat, remoto,
          resp_ultimo, numero_ultimo, ultimo_resultado, concurso,
          contador, pedidos, ocorrencias, agora, ultima_busca, consultas,
          fresco, status, erro>>

genVars == <<qtd_jogos, dezenas_por_jogo, sorteio_bruto, vistos, extra, jogos>>
anaVars == <<jogo_arg, estat>>
carVars == <<resp_ultimo, numero_ultimo, ultimo_resultado, concurso,
             contador, pedidos, ocorrencias>>
relVars == <<agora, ultima_busca, consultas, fresco>>

-----------------------------------------------------------------------------
(* Bounds of the model *)

NumSeeds == 2       \* seeds of the random generator
MaxLista == 2       \* longest list handed to analisar_jogo directly
MaxTempo == 2       \* last clock value
MaxConsultas == 2   \* lookups in one behaviour
TTL == 1            \* freshness window of the specified cache

-----------------------------------------------------------------------------
(* Program constants *)

UNIVERSO == 25          \* range(1, 26)
QTD_CONCURSOS == 10     \* qtd_concursos=10
LIMIAR_BAIXOS == 13     \* n <= 13
QTD_MIN == 1
QTD_MAX == 50
DEZENAS_MIN == 15
DEZENAS_MAX == 20
QTD_PADRAO_INDEX == 10
QTD_PADRAO_TXT == 20
DEZENAS_PADRAO == 15

\* an optional value: None, or Some(x) holding x
None == <<>>
Some(x) == <<x>>
Val(o) == o[1]

PRIMOS == {2, 3, 5, 7, 11, 13, 17, 19, 23}
FIBONACCI == {1, 2, 3, 5, 8, 13, 21}
BORDAS == {1, 2, 3, 4, 5, 6, 10, 11, 15, 16, 20, 21, 22, 23, 24, 25}

numeros == [i \in 1..UNIVERSO |-> i]

-----------------------------------------------------------------------------
(* Sequences *)

Range(s) == {s[i] : i \in 1..Len(s)}

Conta(s, P(_)) == Cardinality({i \in 1..Len(s) : P(s[i])})

Ordenada(s) == \A i \in 1..(Len(s) - 1) : s[i] <= s[i + 1]

EstritamenteCrescente(s) == \A i \in 1..(Len(s) - 1) : s[i] < s[i + 1]

\* list.sort()
Sort(s) == SortSeq(s, LAMBDA a, b : a < b)

\* range(a, b) of Python as a sequence
PyRange(a, b) == [i \in 1..(IF b > a THEN b - a ELSE 0) |-> a + i - 1]

ZERADAS == [n \in 1..UNIVERSO |-> 0]

\* dict.get(k, default)
Get(d, k, default) == IF k \in DOMAIN d THEN d[k] ELSE default

-----------------------------------------------------------------------------
(* int(): strings are sequences of characters, JSON scalars are tagged *)

DIGITOS == <<"0", "1", "2", "3", "4", "5", "6", "7", "8", "9">>

EhDigito(c) == c \in Range(DIGITOS)

ValorDigito(c) == (CHOOSE k \in 1..Len(DIGITOS) : DIGITOS[k] = c) - 1

\* str.strip() of blanks
RECURSIVE Strip(_)
Strip(s) ==
    IF s = <<>> THEN s
    ELSE IF Head(s) = " " THEN Strip(Tail(s))
    ELSE IF s[Len(s)] = " " THEN Strip(SubSeq(s, 1, Len(s) - 1))
    ELSE s

RECURSIVE ValorDecimal(_, _, _)
ValorDecimal(ds, i, acc) ==
    IF i > Len(ds) THEN acc
    ELSE ValorDecimal(ds, i + 1, acc * 10 + ValorDigito(ds[i]))

\* the result of a conversion: the exception raised ("" when none) and the value
Ok(v) == [exc |-> "", v |-> v]
Raise(e) == [exc |-> e, v |-> 0]

\* int(s) of a str: blanks stripped, an optional sign, decimal digits that single
\* underscores may separate
ParseInt(s) ==
    LET t == Strip(s)
        sinal == t # <<>> /\ Head(t) \in {"+", "-"}
        corpo == IF sinal THEN Tail(t) ELSE t
        valido ==
            /\ corpo # <<>>
            /\ \A k \in 1..Len(corpo) : EhDigito(corpo[k]) \/ corpo[k] = "_"
            /\ corpo[1] # "_"
            /\ corpo[Len(corpo)] # "_"
            /\ \A k \in 1..(Len(corpo) - 1) : ~(corpo[k] = "_" /\ corpo[k + 1] = "_")
        valor == ValorDecimal(SelectSeq(corpo, EhDigito), 1, 0)
    IN  IF ~valido THEN Raise("ValueError")
        ELSE Ok(IF sinal /\ Head(t) = "-" THEN -valor ELSE valor)

JInt(i) == [t |-> "int", i |-> i, s |-> <<>>]
JStr(s) == [t |-> "str", i |-> 0, s |-> s]
\* the float d / 10
JFloat(d) == [t |-> "float", i |-> d, s |-> <<>>]
JInf == [t |-> "inf", i |-> 0, s |-> <<>>]
JNull == [t |-> "null", i |-> 0, s |-> <<>>]

\* int(x) of a decoded JSON scalar
PyInt(x) ==
    CASE x.t = "int" -> Ok(x.i)
      [] x.t = "float" -> Ok(IF x.i >= 0 THEN x.i \div 10 ELSE -((-x.i) \div 10))
      [] x.t = "str" -> ParseInt(x.s)
      [] x.t = "inf" -> Raise("OverflowError")
      [] OTHER -> Raise("TypeError")

-----------------------------------------------------------------------------
(* analisar_jogo *)

\* analisar_jogo with the threshold read as "below 13"
analisar_jogo_abaixo(jogo) ==
    LET pares == Conta(jogo, LAMBDA n : n % 2 = 0)
        baixos == Conta(jogo, LAMBDA n : n < LIMIAR_BAIXOS)
    IN  [pares |-> pares,
         impares |-> Len(jogo) - pares,
         primos |-> Conta(jogo, LAMBDA n : n \in PRIMOS),
         fibonacci |-> Conta(jogo, LAMBDA n : n \in FIBONACCI),
         borda |-> Conta(jogo, LAMBDA n : n \in BORDAS),
         baixos |-> baixos,
         altos |-> Len(jogo) - baixos]

analisar_jogo(jogo) ==
    LET pares == Conta(jogo, LAMBDA n : n % 2 = 0)
        baixos == Conta(jogo, LAMBDA n : n <= LIMIAR_BAIXOS)
    IN  [pares |-> pares,
         impares |-> Len(jogo) - pares,
         primos |-> Conta(jogo, LAMBDA n : n \in PRIMOS),
         fibonacci |-> Conta(jogo, LAMBDA n : n \in FIBONACCI),
         borda |-> Conta(jogo, LAMBDA n : n \in BORDAS),
         baixos |-> baixos,
         altos |-> Len(jogo) - baixos]

-----------------------------------------------------------------------------
(* The random module: a seeded deterministic generator *)

Seeds == {7919 * k + 1 : k \in 0..(NumSeeds - 1)}

NextRng(s) == (s * 25173 + 13849) % 65536

\* the value below n drawn when the generator moves to state s
Randbelow(s, n) == (s \div 64) % n

\* w[lo] + ... + w[hi], added by halves
RECURSIVE Soma(_, _, _)
Soma(w, lo, hi) ==
    IF lo > hi THEN 0
    ELSE IF lo = hi THEN w[lo]
    ELSE LET mid == (lo + hi) \div 2
         IN  Soma(w, lo, mid) + Soma(w, mid + 1, hi)

\* list(itertools.accumulate(w)): the cumulative weights
Accumulate(w) == [i \in 1..Len(w) |-> Soma(w, 1, i)]

\* bisect.bisect_right(cum, r, lo, hi), 0-based as in Python
RECURSIVE Bisect(_, _, _, _)
Bisect(cum, r, lo, hi) ==
    IF lo >= hi THEN lo
    ELSE LET mid == (lo + hi) \div 2
         IN  IF r < cum[mid + 1] THEN Bisect(cum, r, lo, mid)
             ELSE Bisect(cum, r, mid + 1, hi)

\* the next k states of the generator, in order (built by halves)
RECURSIVE Stream(_, _)
Stream(s, k) ==
    IF k <= 0 THEN <<>>
    ELSE IF k = 1 THEN <<NextRng(s)>>
    ELSE LET h == k \div 2
             a == Stream(s, h)
         IN  a \o Stream(a[h], k - h)

\* random.choices(population, weights, k): [lista, rng]
Choices(population, weights, k, s) ==
    LET cum == Accumulate(weights)
        total == cum[Len(cum)]
        hi == Len(cum) - 1
        st == Stream(s, k)
    IN  [lista |-> [i \in 1..k |->
                      population[Bisect(cum, Randbelow(st[i], total), 0, hi) + 1]],
         rng |-> IF k > 0 THEN st[k] ELSE s]

\* random.sample(population, k), the pool branch, after i selections:
\* [pool, lista].  (The set-based branch needs k <= 5 and more than 21
\* candidates, that is a ticket size of at most 8.)
RECURSIVE SampleLoop(_, _, _)
SampleLoop(population, st, i) ==
    IF i = 0 THEN [pool |-> population, lista |-> <<>>]
    ELSE LET p == SampleLoop(population, st, i - 1)
             n == Len(population)
             j == Randbelow(st[i], n - (i - 1)) + 1
         IN  [pool |-> [p.pool EXCEPT ![j] = p.pool[n - (i - 1)]],
              lista |-> Append(p.lista, p.pool[j])]

\* random.sample(population, k): [lista, rng]
Sample(population, k, s) ==
    LET st == Stream(s, k)
    IN  [lista |-> SampleLoop(population, st, k).lista,
         rng |-> IF k > 0 THEN st[k] ELSE s]

-----------------------------------------------------------------------------
(* gerar_jogos *)

\* pesos = [frequencias.get(n, 0) + 1 for n in numeros]
Pesos(freq) == [i \in 1..Len(numeros) |-> Get(freq, numeros[i], 0) + 1]

\* the body of "for n in sorteio_bruto": cheio is set where the loop breaks
Passo(st, n, size) ==
    IF st.cheio THEN st
    ELSE LET novo == n \notin st.vistos
             vs2 == IF novo THEN st.vistos \cup {n} ELSE st.vistos
             u2 == IF novo THEN Append(st.unicos, n) ELSE st.unicos
         IN  [vistos |-> vs2, unicos |-> u2, cheio |-> Len(u2) = size]

\* the loop over bruto[lo..hi], in order (run by halves)
RECURSIVE VarrerTrecho(_, _, _, _, _)
VarrerTrecho(bruto, lo, hi, st, size) ==
    IF lo > hi THEN st
    ELSE IF lo = hi THEN Passo(st, bruto[lo], size)
    ELSE LET mid == (lo + hi) \div 2
             antes == VarrerTrecho(bruto, lo, mid, st, size)
         IN  IF antes.cheio THEN antes
             ELSE VarrerTrecho(bruto, mid + 1, hi, antes, size)

\* the scan that removes repeated values: [vistos, unicos, cheio]
Varredura(bruto, size) ==
    VarrerTrecho(bruto, 1, Len(bruto),
                 [vistos |-> {}, unicos |-> <<>>, cheio |-> FALSE], size)

\* restantes = [n for n in numeros if n not in vistos]
Restantes(vs) == SelectSeq(numeros, LAMBDA n : n \notin vs)

\* the fill drawing from all of numeros instead of restantes
CompletarDeTodos(unicos, vs, size, s) ==
    IF Len(unicos) < size
    THEN LET x == Sample(numeros, size - Len(unicos), s)
         IN  [unicos |-> unicos \o x.lista, extra |-> x.lista, rng |-> x.rng]
    ELSE [unicos |-> unicos, extra |-> <<>>, rng |-> s]

\* the fill of a short ticket: [unicos, extra, rng]
Completar(unicos, vs, size, s) ==
    IF Len(unicos) < size
    THEN LET restantes == Restantes(vs)
         IN  IF Len(restantes) >= size - Len(unicos)
             THEN LET x == Sample(restantes, size - Len(unicos), s)
                  IN  [unicos |-> unicos \o x.lista, extra |-> x.lista,
                       rng |-> x.rng]
             ELSE [unicos |-> unicos, extra |-> <<>>, rng |-> s]
    ELSE [unicos |-> unicos, extra |-> <<>>, rng |-> s]

\* the dict appended to jogos
Jogo(unicos) ==
    LET dezenas == Sort(unicos)
    IN  [dezenas |-> dezenas, analise |-> analisar_jogo(dezenas)]

\* if frequencias is None: frequencias = {n: 0 for n in range(1, 26)}
FrequenciasOuZeradas(f) == IF f = None THEN ZERADAS ELSE Val(f)

\* arguments of the direct calls
QtdDireta == {0, 1, 2, QTD_MAX}
DezenasDireta == {-1, 0, UNIVERSO, UNIVERSO + 1} \cup (DEZENAS_MIN..DEZENAS_MAX)
FreqDireta ==
    { ZERADAS,
      [n \in 1..UNIVERSO |-> IF n = 1 THEN 5 ELSE 0],
      [n \in 1..UNIVERSO |-> IF n <= 3 THEN 40 ELSE 0],
      [n \in {7, 30} |-> 3] }

\* a direct call gerar_jogos(q, d, f), f a table or None
ChamarGerarJogos ==
    /\ pc = "ocioso"
    /\ \E q \in QtdDireta, d \in DezenasDireta, f \in {Some(t) : t \in FreqDireta} \cup {None} :
          /\ qtd_jogos' = q
          /\ dezenas_por_jogo' = d
          /\ frequencias' = FrequenciasOuZeradas(f)
    /\ jogos' = <<>>
    /\ sorteio_bruto' = <<>>
    /\ vistos' = {}
    /\ extra' = <<>>
    /\ chamador' = "direto"
    /\ pc' = "gerar"
    /\ UNCHANGED <<rng, status, erro>>
    /\ UNCHANGED <<anaVars, carVars, relVars, remoto>>

\* one iteration of "for _ in range(qtd_jogos)"
GerarJogo ==
    /\ pc = "gerar"
    /\ Len(jogos) < qtd_jogos
    /\ LET c == Choices(numeros, Pesos(frequencias), dezenas_por_jogo * 2, rng)
           v == Varredura(c.lista, dezenas_por_jogo)
           f == Completar(v.unicos, v.vistos, dezenas_por_jogo, c.rng)
       IN  /\ sorteio_bruto' = c.lista
           /\ vistos' = v.vistos
           /\ extra' = f.extra
           /\ rng' = f.rng
           /\ jogos' = Append(jogos, Jogo(f.unicos))
    /\ UNCHANGED <<pc, chamador, qtd_jogos, dezenas_por_jogo, frequencias,
                   status, erro>>
    /\ UNCHANGED <<anaVars, carVars, relVars, remoto>>

\* return jogos
RetornarJogos ==
    /\ pc = "gerar"
    /\ Len(jogos) >= qtd_jogos
    /\ pc' = "gerado"
    /\ UNCHANGED <<chamador, rng, frequencias, status, erro>>
    /\ UNCHANGED <<genVars, anaVars, carVars, relVars, remoto>>

\* lists handed to analisar_jogo directly
RECURSIVE Listas(_)
Listas(n) ==
    IF n = 0 THEN {<<>>}
    ELSE LET menores == Listas(n - 1)
         IN  menores \cup {Append(l, x) : l \in {m \in menores : Len(m) = n - 1},
                                          x \in 1..UNIVERSO}

\* a direct call analisar_jogo(jogo)
ChamarAnalisarJogo ==
    /\ pc = "ocioso"
    /\ \E jogo \in Listas(MaxLista) :
          /\ jogo_arg' = jogo
          /\ estat' = analisar_jogo(jogo)
    /\ chamador' = "direto"
    /\ pc' = "analisado"
    /\ UNCHANGED <<rng, frequencias, status, erro>>
    /\ UNCHANGED <<genVars, carVars, relVars, remoto>>

-----------------------------------------------------------------------------
(* The remote source *)

\* a response: a failure of the request, or a decoded JSON object
Falha(tipo) ==
    [tipo |-> tipo,
     corpo |-> [numero |-> JNull, listaDezenas |-> <<>>,
                dezenasSorteadasOrdemSorteio |-> <<>>, dataApuracao |-> None]]

Json(numero, lista, ordem, data) ==
    [tipo |-> "json",
     corpo |-> [numero |-> numero, listaDezenas |-> lista,
                dezenasSorteadasOrdemSorteio |-> ordem, dataApuracao |-> data]]

FALHAS == {Falha("erro_rede"), Falha("http_erro"), Falha("nao_json")}

\* a number as the source writes it: two digits
Dezena(n) == JStr(<<DIGITOS[(n \div 10) + 1], DIGITOS[(n % 10) + 1]>>)

RECURSIVE Decimal(_)
Decimal(n) ==
    IF n < 10 THEN <<DIGITOS[n + 1]>>
    ELSE Append(Decimal(n \div 10), DIGITOS[(n % 10) + 1])

\* the draw 01..15
LIMPA == [i \in 1..15 |-> Dezena(i)]

\* a repeated number, entries that are no numbers, numbers outside 1..25
SUJA == <<Dezena(10), Dezena(3), Dezena(3), JStr(<<"x">>), JNull, Dezena(30),
          JInt(0), JFloat(25), JStr(<<" ", "2", "5">>)>>

\* integers, in the order of the draw
ORDEM == <<JInt(15), JInt(2), JInt(9)>>

\* the constant Infinity between two numbers
INFINITA == <<Dezena(1), JInf, Dezena(2)>>

DATA == Some("05/11/2026")

\* what the source may answer to the request of its latest contest, number r
RespostasUltimo(r) ==
    FALHAS \cup
    { Json(JInt(r), LIMPA, <<>>, DATA),
      Json(JStr(Decimal(r)), SUJA, <<>>, DATA),
      Json(JFloat(10 * r + 7), <<>>, ORDEM, None),
      Json(JInt(r), INFINITA, <<>>, DATA),
      Json(JNull, LIMPA, <<>>, DATA),
      Json(JStr(<<"a", "b", "c">>), LIMPA, <<>>, DATA),
      Json(JInf, LIMPA, <<>>, DATA) }

\* what the source may answer to the request of one contest
RespostasConcurso ==
    FALHAS \cup
    { Json(JNull, LIMPA, <<>>, DATA),
      Json(JNull, SUJA, <<>>, DATA),
      Json(JNull, <<>>, ORDEM, None),
      Json(JNull, INFINITA, <<>>, DATA) }

-----------------------------------------------------------------------------
(* carregar_ultimos_resultados *)

\* dados.get("listaDezenas") or dados.get("dezenasSorteadasOrdemSorteio") or []
DezenasRaw(corpo) ==
    IF corpo.listaDezenas # <<>> THEN corpo.listaDezenas
    ELSE IF corpo.dezenasSorteadasOrdemSorteio # <<>>
         THEN corpo.dezenasSorteadasOrdemSorteio
         ELSE <<>>

\* the loop that fills dezenas_ultimo: except (TypeError, ValueError): continue
RECURSIVE ConverterDezenas(_, _, _)
ConverterDezenas(raw, i, acc) ==
    IF i > Len(raw) THEN Ok(acc)
    ELSE LET c == PyInt(raw[i])
         IN  IF c.exc = "" THEN ConverterDezenas(raw, i + 1, Append(acc, c.v))
             ELSE IF c.exc \in {"TypeError", "ValueError"}
                  THEN ConverterDezenas(raw, i + 1, acc)
                  ELSE Raise(c.exc)

\* contador[n] += 1
Incrementar(cnt, n) ==
    IF n \in DOMAIN cnt THEN [cnt EXCEPT ![n] = @ + 1] ELSE cnt @@ (n :> 1)

\* the loop that counts one contest; an exception that is neither TypeError nor
\* ValueError leaves the loop, and the enclosing "except Exception" goes on to
\* the next contest with what was counted so far
RECURSIVE ContarDezenas(_, _, _)
ContarDezenas(cnt, raw, i) ==
    IF i > Len(raw) THEN cnt
    ELSE LET c == PyInt(raw[i])
         IN  IF c.exc = ""
             THEN ContarDezenas(IF 1 <= c.v /\ c.v <= UNIVERSO
                                THEN Incrementar(cnt, c.v) ELSE cnt,
                                raw, i + 1)
             ELSE IF c.exc \in {"TypeError", "ValueError"}
                  THEN ContarDezenas(cnt, raw, i + 1)
                  ELSE cnt

\* primeiro_concurso = max(1, numero_ultimo - qtd_concursos + 1)
PrimeiroConcurso(num) ==
    IF num - QTD_CONCURSOS + 1 > 1 THEN num - QTD_CONCURSOS + 1 ELSE 1

\* frequencias = {n: contador.get(n, 0) for n in range(1, 26)}
Frequencias(cnt) == [n \in 1..UNIVERSO |-> Get(cnt, n, 0)]

\* the entries of a decoded draw that are numbers, as integers
RECURSIVE Inteiros(_, _, _)
Inteiros(raw, i, acc) ==
    IF i > Len(raw) THEN acc
    ELSE LET c == PyInt(raw[i])
         IN  Inteiros(raw, i + 1, IF c.exc = "" THEN Append(acc, c.v) ELSE acc)

\* the occurrences so far plus those of one more decoded draw
MaisOcorrencias(oc, raw) ==
    LET ints == Inteiros(raw, 1, <<>>)
    IN  [n \in 1..UNIVERSO |-> oc[n] + Conta(ints, LAMBDA v : v = n)]

\* the call: the locals of a fresh activation
IniciarCarregar ==
    /\ resp_ultimo' = None
    /\ numero_ultimo' = 0
    /\ ultimo_resultado' = None
    /\ concurso' = 0
    /\ contador' = <<>>
    /\ pedidos' = <<>>
    /\ ocorrencias' = ZERADAS
    /\ fresco' = (ultima_busca >= 0 /\ agora - ultima_busca < TTL)
    /\ consultas' = consultas + 1
    /\ UNCHANGED <<agora, ultima_busca>>

\* a direct call carregar_ultimos_resultados(qtd_concursos=10)
ChamarCarregar ==
    /\ pc = "ocioso"
    /\ consultas < MaxConsultas
    /\ IniciarCarregar
    /\ chamador' = "direto"
    /\ pc' = "ultimo"
    /\ UNCHANGED <<rng, frequencias, status, erro, remoto>>
    /\ UNCHANGED <<genVars, anaVars>>

\* the exception of the request left to propagate
RetornarNonePropaga ==
    /\ erro' = "Exception"
    /\ pc' = "excecao"
    /\ UNCHANGED <<ultimo_resultado, frequencias, numero_ultimo, concurso,
                   contador, ultima_busca>>

\* return None, {n: 0 for n in range(1, 26)}
RetornarNone ==
    /\ ultimo_resultado' = None
    /\ frequencias' = ZERADAS
    /\ pc' = "carregado"
    /\ UNCHANGED <<numero_ultimo, concurso, contador, ultima_busca, erro>>

\* what follows the answer resp to the request of the latest contest
LerUltimo(resp) ==
    /\ resp_ultimo' = Some(resp)
    /\ IF resp.tipo # "json" THEN RetornarNone
       ELSE LET num == PyInt(resp.corpo.numero)
                dez == ConverterDezenas(DezenasRaw(resp.corpo), 1, <<>>)
            IN  IF num.exc # "" THEN RetornarNone
                ELSE IF dez.exc # ""
                THEN /\ erro' = dez.exc
                     /\ pc' = "excecao"
                     /\ numero_ultimo' = num.v
                     /\ UNCHANGED <<ultimo_resultado, frequencias, concurso,
                                    contador, ultima_busca>>
                ELSE /\ numero_ultimo' = num.v
                     /\ ultimo_resultado' =
                           Some([concurso |-> num.v,
                                 data |-> resp.corpo.dataApuracao,
                                 dezenas |-> Sort(dez.v)])
                     /\ concurso' = PrimeiroConcurso(num.v)
                     /\ contador' = <<>>
                     /\ ultima_busca' = agora
                     /\ pc' = "concursos"
                     /\ UNCHANGED <<frequencias, erro>>
    /\ UNCHANGED <<chamador, rng, ocorrencias, agora, consultas, fresco, status,
                   remoto>>
    /\ UNCHANGED <<genVars, anaVars>>

\* the request sent again after a failure, the second answer read
PedirUltimoDeNovo(resp) ==
    IF resp.tipo # "json"
    THEN /\ pedidos' = pedidos \o <<0, 0>>
         /\ \E outra \in RespostasUltimo(remoto) : LerUltimo(outra)
    ELSE /\ pedidos' = Append(pedidos, 0)
         /\ LerUltimo(resp)

\* requests.get(URL_LOTOFACIL_ULTIMO, ...) answered by resp
PedirUltimo(resp) ==
    /\ pedidos' = Append(pedidos, 0)
    /\ LerUltimo(resp)

\* a lookup that answers from a stored payload while it is fresh
CarregarUltimoDoCache ==
    /\ pc = "ultimo"
    /\ IF fresco
       THEN /\ RetornarNone
            /\ UNCHANGED <<resp_ultimo, pedidos>>
            /\ UNCHANGED <<chamador, rng, ocorrencias, agora, consultas, fresco,
                           status, remoto>>
            /\ UNCHANGED <<genVars, anaVars>>
       ELSE \E resp \in RespostasUltimo(remoto) : PedirUltimo(resp)

\* the request of the latest contest and the reading of its answer
CarregarUltimo ==
    /\ pc = "ultimo"
    /\ \E resp \in RespostasUltimo(remoto) : PedirUltimo(resp)

\* one iteration of "for concurso in range(primeiro_concurso, numero_ultimo + 1)"
CarregarConcurso ==
    /\ pc = "concursos"
    /\ concurso <= numero_ultimo
    /\ \E resp \in RespostasConcurso :
          /\ pedidos' = Append(pedidos, concurso)
          /\ IF resp.tipo = "json"
             THEN LET raw == DezenasRaw(resp.corpo)
                  IN  /\ contador' = ContarDezenas(contador, raw, 1)
                      /\ ocorrencias' = MaisOcorrencias(ocorrencias, raw)
             ELSE UNCHANGED <<contador, ocorrencias>>
    /\ concurso' = concurso + 1
    /\ UNCHANGED <<pc, chamador, rng, frequencias, resp_ultimo, numero_ultimo,
                   ultimo_resultado, status, erro, remoto>>
    /\ UNCHANGED <<genVars, anaVars, relVars>>

\* return ultimo_resultado, frequencias
RetornarResultados ==
    /\ pc = "concursos"
    /\ concurso > numero_ultimo
    /\ frequencias' = Frequencias(contador)
    /\ pc' = "carregado"
    /\ UNCHANGED <<chamador, rng, status, erro, remoto>>
    /\ UNCHANGED <<genVars, anaVars, carVars, relVars>>

\* the direct caller is done with the result, or with the exception
ConcluirChamada ==
    /\ pc \in {"carregado", "excecao"}
    /\ chamador = "direto"
    /\ pc' = "ocioso"
    /\ chamador' = ""
    /\ frequencias' = <<>>
    /\ erro' = ""
    /\ resp_ultimo' = None
    /\ numero_ultimo' = 0
    /\ ultimo_resultado' = None
    /\ concurso' = 0
    /\ contador' = <<>>
    /\ pedidos' = <<>>
    /\ ocorrencias' = ZERADAS
    /\ UNCHANGED <<rng, status, remoto>>
    /\ UNCHANGED <<genVars, anaVars, relVars>>

\* time passes between two calls
PassarTempo ==
    /\ pc = "ocioso"
    /\ agora < MaxTempo
    /\ agora' = agora + 1
    /\ UNCHANGED <<pc, chamador, rng, frequencias, ultima_busca, consultas,
                   fresco, status, erro, remoto>>
    /\ UNCHANGED <<genVars, anaVars, carVars>>

-----------------------------------------------------------------------------
(* The Flask routes *)

\* a request parameter: absent (None) or the string sent
PARAMS ==
    {None} \cup
    { Some(s) : s \in { <<"a", "b", "c">>,
                        <<"-", "5">>,
                        <<"2">>,
                        <<"1", "7">>,
                        <<"5", "1">>,
                        <<"9", "9", "9", "9", "9", "9", "9", "9", "9">>,
                        <<" ", "3", " ">>,
                        <<"1", "2", ".", "5">> } }

\* request.form.get(name, default) / request.args.get(name, default)
ParamGet(p, default) == IF p = None THEN JInt(default) ELSE JStr(Val(p))

Min(a, b) == IF a < b THEN a ELSE b
Max(a, b) == IF a > b THEN a ELSE b

\* the limit without its ceiling
LimitarQtdSemTeto(q) == Max(QTD_MIN, q)

\* max(1, min(qtd_jogos, 50))
LimitarQtd(q) == Max(QTD_MIN, Min(q, QTD_MAX))

\* max(15, min(dezenas_por_jogo, 20))
LimitarDezenas(d) == Max(DEZENAS_MIN, Min(d, DEZENAS_MAX))

\* try: int(request.form.get(name, default)) except (TypeError, ValueError): default
ParamIndex(p, default) ==
    LET c == PyInt(ParamGet(p, default))
    IN  IF c.exc \in {"TypeError", "ValueError"} THEN default ELSE c.v

\* index, up to the call of carregar_ultimos_resultados
ReceberIndex ==
    /\ pc = "ocioso"
    /\ \E metodo \in {"GET", "POST"}, pq \in PARAMS, pd \in PARAMS :
          IF metodo = "POST"
          THEN /\ qtd_jogos' = LimitarQtd(ParamIndex(pq, QTD_PADRAO_INDEX))
               /\ dezenas_por_jogo' = LimitarDezenas(ParamIndex(pd, DEZENAS_PADRAO))
          ELSE /\ qtd_jogos' = QTD_PADRAO_INDEX
               /\ dezenas_por_jogo' = DEZENAS_PADRAO
    /\ chamador' = "index"
    /\ IniciarCarregar
    /\ pc' = "ultimo"
    /\ UNCHANGED <<rng, frequencias, sorteio_bruto, vistos, extra, jogos,
                   status, erro, remoto>>
    /\ UNCHANGED anaVars

\* download_txt, up to the call of carregar_ultimos_resultados; int() is not
\* guarded here
ReceberDownload ==
    /\ pc = "ocioso"
    /\ \E pq \in PARAMS, pd \in PARAMS :
          LET q == PyInt(ParamGet(pq, QTD_PADRAO_TXT))
              d == PyInt(ParamGet(pd, DEZENAS_PADRAO))
          IN  IF q.exc # "" \/ d.exc # ""
              THEN /\ erro' = IF q.exc # "" THEN q.exc ELSE d.exc
                   /\ pc' = "excecao"
                   /\ UNCHANGED <<qtd_jogos, dezenas_por_jogo, carVars, relVars>>
              ELSE /\ qtd_jogos' = LimitarQtd(q.v)
                   /\ dezenas_por_jogo' = LimitarDezenas(d.v)
                   /\ IniciarCarregar
                   /\ pc' = "ultimo"
                   /\ erro' = erro
    /\ chamador' = "download_txt"
    /\ UNCHANGED <<rng, frequencias, sorteio_bruto, vistos, extra, jogos,
                   status, remoto>>
    /\ UNCHANGED anaVars

ROTAS == {"index", "download_txt"}

\* jogos = gerar_jogos(qtd_jogos=..., dezenas_por_jogo=..., frequencias=frequencias)
ChamarGerarRota ==
    /\ pc = "carregado"
    /\ chamador \in ROTAS
    /\ frequencias' = FrequenciasOuZeradas(Some(frequencias))
    /\ jogos' = <<>>
    /\ sorteio_bruto' = <<>>
    /\ vistos' = {}
    /\ extra' = <<>>
    /\ pc' = "gerar"
    /\ UNCHANGED <<chamador, rng, qtd_jogos, dezenas_por_jogo, status, erro,
                   remoto>>
    /\ UNCHANGED <<anaVars, carVars, relVars>>

\* render_template(...) / send_file(...)
Responder ==
    /\ pc = "gerado"
    /\ chamador \in ROTAS
    /\ status' = 200
    /\ pc' = "respondido"
    /\ UNCHANGED <<chamador, rng, frequencias, erro, remoto>>
    /\ UNCHANGED <<genVars, anaVars, carVars, relVars>>

\* an exception left the view function: Flask answers 500
ResponderErro ==
    /\ pc = "excecao"
    /\ chamador \in ROTAS
    /\ status' = 500
    /\ pc' = "respondido"
    /\ UNCHANGED <<chamador, rng, frequencias, erro, remoto>>
    /\ UNCHANGED <<genVars, anaVars, carVars, relVars>>

-----------------------------------------------------------------------------
(* The state after the module is imported *)

InitBase ==
    /\ pc = "ocioso"
    /\ chamador = ""
    /\ qtd_jogos = 0
    /\ dezenas_por_jogo = 0
    /\ frequencias = <<>>
    /\ sorteio_bruto = <<>>
    /\ vistos = {}
    /\ extra = <<>>
    /\ jogos = <<>>
    /\ jogo_arg = <<>>
    /\ estat = None
    /\ resp_ultimo = None
    /\ numero_ultimo = 0
    /\ ultimo_resultado = None
    /\ concurso = 0
    /\ contador = <<>>
    /\ pedidos = <<>>
    /\ ocorrencias = ZERADAS
    /\ agora = 0
    /\ ultima_busca = -1
    /\ consultas = 0
    /\ fresco = FALSE
    /\ status = 0
    /\ erro = ""

\* the process that calls the generator and the analyser
Init ==
    /\ InitBase
    /\ rng \in Seeds
    /\ remoto = 0

NextGen ==
    \/ ChamarGerarJogos
    \/ GerarJogo
    \/ RetornarJogos
    \/ ChamarAnalisarJogo

SpecGen == Init /\ [][NextGen]_vars

\* latest contests of the remote source, for a direct lookup
REMOTOS == {0, 1, 3, QTD_CONCURSOS + 1}

\* the process that makes one lookup
InitLookup ==
    /\ InitBase
    /\ rng = 1
    /\ remoto \in REMOTOS

NextLookup ==
    \/ ChamarCarregar
    \/ CarregarUltimo
    \/ CarregarConcurso
    \/ RetornarResultados

SpecLookup == InitLookup /\ [][NextLookup]_vars

\* the process that makes lookup after lookup while time passes
InitCache ==
    /\ InitBase
    /\ rng = 1
    /\ remoto \in {0, 1}

NextCache ==
    \/ ChamarCarregar
    \/ CarregarUltimo
    \/ CarregarConcurso
    \/ RetornarResultados
    \/ ConcluirChamada
    \/ PassarTempo

SpecCache == InitCache /\ [][NextCache]_vars

\* the process that serves one HTTP request
InitRoute ==
    /\ InitBase
    /\ rng = 1
    /\ remoto \in {0, 1}

NextRoute ==
    \/ ReceberIndex
    \/ ReceberDownload
    \/ CarregarUltimo
    \/ CarregarConcurso
    \/ RetornarResultados
    \/ ChamarGerarRota
    \/ GerarJogo
    \/ RetornarJogos
    \/ Responder
    \/ ResponderErro

SpecRoute == InitRoute /\ [][NextRoute]_vars

-----------------------------------------------------------------------------
(* Properties *)

Gerando == pc \in {"gerar", "gerado"}

TamanhoValido == dezenas_por_jogo \in DEZENAS_MIN..DEZENAS_MAX

\* the tickets a state is settled on: all of them once the call has returned,
\* the one just appended while the loop runs
Bilhetes ==
    IF pc = "gerar" THEN {Len(jogos)} \ {0} ELSE 1..Len(jogos)

\* C1: for every ticket size in 15..20 and every ticket count in 1..50, whatever
\* the frequency table and the random draws, gerar_jogos returns exactly
\* qtd_jogos tickets, and the dezenas of each ticket are exactly
\* dezenas_por_jogo integers of 1..25 in strictly ascending order (so pairwise
\* distinct).
C1_BilhetesBemFormados ==
    (Gerando /\ chamador = "direto" /\ TamanhoValido
        /\ qtd_jogos \in QTD_MIN..QTD_MAX)
    => /\ Len(jogos) <= qtd_jogos
       /\ pc = "gerado" => Len(jogos) = qtd_jogos
       /\ \A i \in Bilhetes :
             LET d == jogos[i].dezenas
             IN  /\ Len(d) = dezenas_por_jogo
                 /\ \A k \in 1..Len(d) : d[k] \in 1..UNIVERSO
                 /\ EstritamenteCrescente(d)

\* C1 witness: a call for 50 tickets of 20 numbers has returned, and the last
\* ticket needed the fill.
C1_Witness ==
    /\ pc = "gerado"
    /\ chamador = "direto"
    /\ qtd_jogos = QTD_MAX
    /\ dezenas_por_jogo = DEZENAS_MAX
    /\ Len(jogos) = QTD_MAX
    /\ extra # <<>>

\* the counts of an analysis against the list analysed
AnaliseConfere(a, jogo) ==
    /\ a.pares + a.impares = Len(jogo)
    /\ a.baixos + a.altos = Len(jogo)
    /\ a.pares = Cardinality({i \in 1..Len(jogo) : jogo[i] % 2 = 0})
    /\ a.baixos = Cardinality({i \in 1..Len(jogo) : jogo[i] <= 13})

\* C2: for every list of integers of 1..25, analisar_jogo returns counts with
\* pares + impares = len and baixos + altos = len, baixos counting exactly the
\* numbers <= 13; and the analysis stored with each generated ticket is the
\* analysis of the ticket's final sorted numbers.
C2_AnaliseParticiona ==
    /\ pc = "analisado" => AnaliseConfere(estat, jogo_arg)
    /\ \A i \in Bilhetes :
          /\ AnaliseConfere(jogos[i].analise, jogos[i].dezenas)
          /\ jogos[i].analise.primos =
                Cardinality({k \in 1..Len(jogos[i].dezenas) :
                               jogos[i].dezenas[k] \in PRIMOS})
          /\ jogos[i].analise.fibonacci =
                Cardinality({k \in 1..Len(jogos[i].dezenas) :
                               jogos[i].dezenas[k] \in FIBONACCI})
          /\ jogos[i].analise.borda =
                Cardinality({k \in 1..Len(jogos[i].dezenas) :
                               jogos[i].dezenas[k] \in BORDAS})

\* C2 witness: the list [13, 14] was analysed: a number on the threshold and
\* one above it.
C2_Witness ==
    /\ pc = "analisado"
    /\ jogo_arg = <<13, 14>>
    /\ estat.baixos = 1
    /\ estat.altos = 1
    /\ estat.pares = 1
    /\ estat.impares = 1

FalhouPedido == resp_ultimo # None /\ Val(resp_ultimo).tipo # "json"

C5_TamanhoInvalidoFalha ==
    (pc = "gerado" /\ chamador = "direto")
    => /\ dezenas_por_jogo \in 1..UNIVERSO
       /\ \A i \in 1..Len(jogos) : Len(jogos[i].dezenas) = dezenas_por_jogo

\* C6: the returned table has exactly the keys 1..25, and the value of each
\* number is the number of its occurrences across the decoded draws of the
\* window.
C6_FrequenciasContamOcorrencias ==
    pc = "carregado"
    => /\ DOMAIN frequencias = 1..UNIVERSO
       /\ \A n \in 1..UNIVERSO : frequencias[n] = ocorrencias[n]

\* C7: whatever the parameters of the request, a call of gerar_jogos made by
\* index or download_txt receives a ticket count in 1..50 and a ticket size in
\* 15..20.
C7_ParametrosLimitados ==
    (Gerando /\ chamador \in ROTAS)
    => /\ qtd_jogos \in QTD_MIN..QTD_MAX
       /\ dezenas_por_jogo \in DEZENAS_MIN..DEZENAS_MAX

\* C7 witness: download_txt calls gerar_jogos with 50 and 20; no parameter of
\* PARAMS reads 50 or 20, these come from the ceilings.
C7_Witness ==
    /\ pc = "gerar"
    /\ chamador = "download_txt"
    /\ qtd_jogos = QTD_MAX
    /\ dezenas_por_jogo = DEZENAS_MAX

\* C8: the numbers of every draw the lookup produces are de-duplicated, sorted
\* ascending and within 1..25.
C8_DezenasSemRepeticao ==
    ultimo_resultado # None
    => LET d == Val(ultimo_resultado).dezenas
       IN  /\ EstritamenteCrescente(d)
           /\ \A k \in 1..Len(d) : d[k] \in 1..UNIVERSO

\* the distinct values met while the first tam distinct values of bruto are scanned
PrimeirosDistintos(bruto, tam) ==
    {bruto[i] : i \in {k \in 1..Len(bruto) :
                         Cardinality({bruto[j] : j \in 1..k}) <= tam}}

\* C9: with at least dezenas_por_jogo distinct values in the raw sample the
\* ticket is the first dezenas_por_jogo distinct values in scan order, sorted;
\* otherwise it holds every distinct value of the raw sample plus fill values
\* taken without replacement among the numbers of 1..25 not yet selected: the
\* fill adds no duplicate and is never skipped when the ticket is short.
C9_VarreduraECompleta ==
    (Gerando /\ jogos # <<>>)
    => LET d == jogos[Len(jogos)].dezenas
           distintos == Range(sorteio_bruto)
       IN  /\ EstritamenteCrescente(d)
           /\ IF Cardinality(distintos) >= dezenas_por_jogo
              THEN /\ Range(d) = PrimeirosDistintos(sorteio_bruto, dezenas_por_jogo)
                   /\ extra = <<>>
              ELSE /\ Range(d) = distintos \cup Range(extra)
                   /\ Range(extra) \subseteq (1..UNIVERSO) \ distintos
                   /\ Cardinality(Range(extra)) = Len(extra)
                   /\ Len(extra) = dezenas_por_jogo - Cardinality(distintos)

\* the request of the latest contest failed: no answer, an error status, a body
\* that is no JSON, or a contest number int() rejects
FalhouUltimo ==
    /\ resp_ultimo # None
    /\ \/ Val(resp_ultimo).tipo # "json"
       \/ PyInt(Val(resp_ultimo).corpo.numero).exc # ""

\* C10: when the request of the latest contest fails, the lookup returns None
\* and the all-zero table over 1..25 without any per-contest request; the route
\* does not fail and generates the requested tickets, every number weighing 1.
C10_FalhaDoUltimoNaoDerruba ==
    (chamador \in ROTAS /\ FalhouUltimo)
    => /\ pc \in {"carregado", "gerar", "gerado", "respondido"}
       /\ erro = ""
       /\ ultimo_resultado = None
       /\ pedidos = <<0>>
       /\ frequencias = ZERADAS
       /\ \A i \in 1..UNIVERSO : Pesos(frequencias)[i] = 1
       /\ pc = "respondido" => (status = 200 /\ Len(jogos) = qtd_jogos)

\* C10 witness: the answer lacked the contest number and index answered 200
\* with its 10 tickets.
C10_Witness ==
    /\ pc = "respondido"
    /\ chamador = "index"
    /\ FalhouUltimo
    /\ Val(resp_ultimo).tipo = "json"
    /\ status = 200
    /\ Len(jogos) = QTD_PADRAO_INDEX

=============================================================================
